---- MODULE Spec2Model ----
(***************************************************************************)
(* Request-time access control and rate limiting of the Venus-Systems      *)
(* backend: the sliding-window rate limiter with its TTL config cache      *)
(* (app/middleware/rate_limiter.py) and the role / permission guards       *)
(* (app/dependencies/rbac.py, auth.py, app/services/role_service.py).      *)
(***************************************************************************)
EXTENDS Integers, Sequences, FiniteSets, TLC

\* ------------------------------------------------------------------ bounds
MaxRpm == 2
MaxRph == 2

\* ------------------------------------------------------- program constants
MinuteWindow == 60
HourWindow == 3600
TTL == 60
RetryAfterMinute == 60
RetryAfterHour == 3600
HTTP_401_UNAUTHORIZED == 401
HTTP_403_FORBIDDEN == 403
HTTP_429_TOO_MANY_REQUESTS == 429

\* ------------------------------------------------------------- the universe
Users == {"u1", "u2"}
Roles == {1, 2}
\* The instants at which the model looks at the clock: inside, on and past the
\* edge of a minute (and of the cache TTL) and of an hour after instant 0.
Instants == {0, 59, 60, 61, 3599, 3600}
EXCLUDED_PATHS == {"/health", "/docs", "/redoc", "/openapi.json", "/"}
Paths == {"/health", "/api/v1/users"}

None == [none |-> TRUE]

\* A row of rate_limit_configs.
ConfigRows(r) ==
    [role_id : {r}, requests_per_minute : 0..MaxRpm,
     requests_per_hour : 1..MaxRph, enabled : BOOLEAN]

\* The Authorization header of a request: absent, a non-bearer scheme, a bearer
\* token that jwt.decode rejects, a valid token without sub, a valid token of a user.
AuthHeaders ==
    {[scheme |-> "none", valid |-> FALSE, sub |-> "-"],
     [scheme |-> "Basic", valid |-> FALSE, sub |-> "-"],
     [scheme |-> "Bearer", valid |-> FALSE, sub |-> "-"],
     [scheme |-> "Bearer", valid |-> TRUE, sub |-> "-"]}
    \cup {[scheme |-> "Bearer", valid |-> TRUE, sub |-> u] : u \in Users}

VARIABLES
    clock,            \* datetime.utcnow(), in seconds
    minute_requests,  \* RateLimitStore.minute_requests
    hour_requests,    \* RateLimitStore.hour_requests
    cache,            \* RateLimitConfigCache.cache, the set of cached rows
    last_refresh,     \* RateLimitConfigCache.last_refresh: <<>> is None, else <<t>>
    db_configs,       \* table rate_limit_configs
    db_user_roles,    \* table user_roles (role ids of each user, in row order)
    admitted,         \* history: every timestamp record_request appended, per user
    resp,             \* the response of the last dispatch
    db_role_names,    \* user_roles joined with roles: the role names of each user
    db_permissions,   \* rpc get_user_permissions: the permission keys of each user
    db_shops,         \* table user_shops: the shop ids of each user
    g,                \* the request in progress behind the middleware
    op,               \* history: the last call on the config cache or config table
    loop              \* the event loop: the task running and every request task

limiterVars == <<clock, minute_requests, hour_requests, cache, last_refresh,
                 db_configs, db_user_roles, admitted, resp, loop>>

\* The request tasks of the event loop.
Tasks == {"t1", "t2"}

\* A task that serves no request.
Task0 ==
    [pc |-> "idle", user |-> "-", role_id |-> 0, config |-> None, stale |-> FALSE,
     fetched |-> FALSE, failed |-> FALSE, dup |-> FALSE, fresh |-> FALSE,
     minute_count |-> 0, hour_count |-> 0, status |-> 0]

\* The loop with nothing to run and the cache's lock free.
Loop0 == [running |-> "-", cache_lock |-> "-", task |-> [t \in Tasks |-> Task0]]

guardVars == <<db_role_names, db_permissions, db_shops, g>>

vars == <<limiterVars, guardVars, op>>

\* ---------------------------------------------------------------- helpers
RECURSIVE Digits(_)
\* str(n) for n >= 0: the decimal digits, most significant first.
Digits(n) == IF n < 10 THEN <<n>> ELSE Append(Digits(n \div 10), n % 10)

RECURSIVE IntOf(_)
\* int(s) of a digit string.
IntOf(s) == IF Len(s) = 0 THEN 0 ELSE 10 * IntOf(SubSeq(s, 1, Len(s) - 1)) + s[Len(s)]

Max0(a, b) == IF a > b THEN a ELSE b

\* ------------------------------------------------------- RateLimitStore
\* [ts for ts in lst if ts > cutoff]
Prune(lst, cutoff) == SelectSeq(lst, LAMBDA ts : ts > cutoff)

Prune_wrong_window(lst, now) == Prune(lst, now - HourWindow)

\* minute_requests[user_id] after get_request_counts at time now
PruneMinute(lst, now) == Prune(lst, now - MinuteWindow)

\* hour_requests[user_id] after get_request_counts at time now
PruneHour(lst, now) == Prune(lst, now - HourWindow)

\* get_request_counts: both lists pruned, and their lengths
get_request_counts(user_id, now) ==
    LET m == PruneMinute(minute_requests[user_id], now)
        h == PruneHour(hour_requests[user_id], now)
    IN [minute |-> m, hour |-> h, minute_count |-> Len(m), hour_count |-> Len(h)]

\* record_request: now appended to a list
record_request_prepends(lst, now) == <<now>> \o lst

record_request(lst, now) == Append(lst, now)

\* ---------------------------------------------------- RateLimitConfigCache
\* self.cache.get(role_id) on the cached rows
CacheGet(rows, role_id) ==
    IF \E r \in rows : r.role_id = role_id
    THEN CHOOSE r \in rows : r.role_id = role_id
    ELSE None

\* last_refresh is None or now - last_refresh > ttl
CacheExpired_at_ttl(c, now) ==
    \/ c.last_refresh = <<>>
    \/ now - c.last_refresh[1] >= TTL

CacheExpired_always(c, now) == TRUE

CacheExpired(c, now) ==
    \/ c.last_refresh = <<>>
    \/ now - c.last_refresh[1] > TTL

\* _refresh_cache: the rows of the table replace the cache; a failing fetch is
\* logged and leaves cache and last_refresh as they were.
refresh_cache_stamps_failure(c, up, now) ==
    IF up THEN [cache |-> db_configs, last_refresh |-> <<now>>]
    ELSE [c EXCEPT !.last_refresh = <<now>>]

refresh_cache(c, up, now) ==
    IF up THEN [cache |-> db_configs, last_refresh |-> <<now>>] ELSE c

\* get_config: the cache state after the call, and the row returned
get_config(c, role_id, up, now) ==
    LET c2 == IF CacheExpired(c, now) THEN refresh_cache(c, up, now) ELSE c
    IN [c |-> c2, config |-> CacheGet(c2.cache, role_id)]

\* invalidate: last_refresh = None, the cached rows stay
invalidate_drops_rows_only(c) == [c EXCEPT !.cache = {}]

invalidate(c) == [c EXCEPT !.last_refresh = <<>>]

\* The history record before any call on the cache or the table.
Op0 ==
    [kind |-> "none", role_id |-> 0, changed |-> FALSE, invalidated |-> FALSE,
     ttl_left |-> FALSE, old |-> None, fetched |-> FALSE, up |-> FALSE,
     answer |-> None, empty |-> FALSE, never |-> FALSE, older |-> FALSE,
     on_edge |-> FALSE, kept |-> FALSE]

\* The last call on the cache was invalidate(), alone or inside an operator's edit.
JustInvalidated == op.kind \in {"invalidate", "update", "toggle"} /\ op.invalidated

\* The history record of a call that reads the cache next after op.
OpRead(kind) ==
    [Op0 EXCEPT !.kind = kind,
                !.role_id = IF JustInvalidated THEN op.role_id ELSE 0,
                !.changed = JustInvalidated /\ op.changed,
                !.invalidated = JustInvalidated,
                !.ttl_left = JustInvalidated /\ op.ttl_left]

\* ------------------------------------------------- RateLimiterMiddleware
\* _get_user_info: None when the token does not decode, has no sub, or the
\* user_roles query raises; else the subject and its role ids.
get_user_info_ignores_query_error(token, rolesUp) ==
    IF ~token.valid THEN None
    ELSE IF token.sub = "-" THEN None
    ELSE [user_id |-> token.sub, role_ids |-> db_user_roles[token.sub]]

get_user_info(token, rolesUp) ==
    IF ~token.valid THEN None
    ELSE IF token.sub = "-" THEN None
    ELSE IF ~rolesUp THEN None
    ELSE [user_id |-> token.sub, role_ids |-> db_user_roles[token.sub]]

\* config and config.get('requests_per_minute', 0) > best_rpm
Better(config, best_rpm) ==
    config # None /\ config.requests_per_minute > best_rpm

RECURSIVE BestLoop(_, _, _, _, _, _, _)
\* the for loop of _get_best_rate_limit from index i on; ups[i] says whether the
\* store answers a fetch made while role_ids[i] is looked up.
BestLoop(role_ids, i, c, best_config, best_rpm, ups, now) ==
    IF i > Len(role_ids) THEN [c |-> c, config |-> best_config]
    ELSE LET got == get_config(c, role_ids[i], ups[i], now)
         IN IF Better(got.config, best_rpm)
            THEN BestLoop(role_ids, i + 1, got.c, got.config,
                          got.config.requests_per_minute, ups, now)
            ELSE BestLoop(role_ids, i + 1, got.c, best_config, best_rpm, ups, now)

\* _get_best_rate_limit
get_best_rate_limit(role_ids, c, ups, now) ==
    IF Len(role_ids) = 0 THEN [c |-> c, config |-> None]
    ELSE BestLoop(role_ids, 1, c, None, 0, ups, now)

\* if count >= limit
OverLimit_strict(count, limit) == count > limit

OverLimit(count, limit) == count >= limit

\* _rate_limit_response: status 429, body retry_after, header Retry-After
rate_limit_response(retry_after) ==
    [status |-> HTTP_429_TOO_MANY_REQUESTS,
     retry_after |-> retry_after,
     retry_after_header |-> Digits(retry_after)]

\* not config or not config.get('enabled', True)
Unthrottled_ignores_enabled(config) == config = None

Unthrottled(config) == config = None \/ ~config.enabled

\* A response record before the limiter decided anything.
Resp0(path, auth) ==
    [user |-> "-", role_ids |-> <<>>, config |-> None,
     checked |-> FALSE, minute_count |-> 0, hour_count |-> 0, win60 |-> 0,
     win3600 |-> 0, reject |-> None, calls |-> 0, recorded |-> FALSE,
     headers |-> None, caught |-> FALSE, raised |-> FALSE,
     fetch_failed |-> FALSE, rows_before |-> {}, at |-> 0, touched |-> FALSE,
     request |-> "none", recorded_before_call |-> FALSE]

\* return await call_next(request)
CallNext(r) == [r EXCEPT !.calls = @ + 1, !.recorded_before_call = r.recorded]

\* except Exception: the error is logged and the request is handed to call_next
OnLimiterError_reraise(r) == [r EXCEPT !.caught = TRUE, !.raised = TRUE]

OnLimiterError(r) == CallNext([r EXCEPT !.caught = TRUE])

\* The X-RateLimit-* headers set on the handler's response.
RateLimitHeaders_counts_after_record(rpm_limit, rph_limit, minute_count, hour_count) ==
    [limit_minute |-> Digits(rpm_limit),
     limit_hour |-> Digits(rph_limit),
     remaining_minute |-> Digits(Max0(0, rpm_limit - minute_count - 2)),
     remaining_hour |-> Digits(Max0(0, rph_limit - hour_count - 2))]

RateLimitHeaders(rpm_limit, rph_limit, minute_count, hour_count) ==
    [limit_minute |-> Digits(rpm_limit),
     limit_hour |-> Digits(rph_limit),
     remaining_minute |-> Digits(Max0(0, rpm_limit - minute_count - 1)),
     remaining_hour |-> Digits(Max0(0, rph_limit - hour_count - 1))]

\* Entries of a timestamp history younger than window seconds at time now.
Trailing(log, now, window) ==
    Cardinality({i \in 1..Len(log) : now - log[i] < window})

\* return self._rate_limit_response(...): the windows stay as get_request_counts
\* pruned them, record_request is not reached.
Reject_recorded(seen, user_id, pruned_m, pruned_h, retry_after) ==
    [minute |-> [pruned_m EXCEPT ![user_id] = record_request(@, clock)],
     hour |-> [pruned_h EXCEPT ![user_id] = record_request(@, clock)],
     admitted |-> admitted,
     resp |-> [seen EXCEPT !.reject = rate_limit_response(retry_after)]]

Reject(seen, user_id, pruned_m, pruned_h, retry_after) ==
    [minute |-> pruned_m, hour |-> pruned_h, admitted |-> admitted,
     resp |-> [seen EXCEPT !.reject = rate_limit_response(retry_after)]]

\* The sliding-window part of dispatch (source lines 137-165) for an identified
\* subject with an enabled config; fault: the store's lock raises.
Throttle(r, user_id, config, fault) ==
    IF fault
    THEN [minute |-> minute_requests, hour |-> hour_requests, admitted |-> admitted,
          resp |-> OnLimiterError(r)]
    ELSE
    LET counts == get_request_counts(user_id, clock)
        rpm_limit == config.requests_per_minute
        rph_limit == config.requests_per_hour
        seen == [r EXCEPT !.checked = TRUE,
                          !.minute_count = counts.minute_count,
                          !.hour_count = counts.hour_count]
        pruned_m == [minute_requests EXCEPT ![user_id] = counts.minute]
        pruned_h == [hour_requests EXCEPT ![user_id] = counts.hour]
    IN  IF OverLimit(counts.minute_count, rpm_limit)
        THEN Reject(seen, user_id, pruned_m, pruned_h, RetryAfterMinute)
        ELSE IF OverLimit(counts.hour_count, rph_limit)
        THEN Reject(seen, user_id, pruned_m, pruned_h, RetryAfterHour)
        ELSE [minute |-> [pruned_m EXCEPT ![user_id] = record_request(@, clock)],
              hour |-> [pruned_h EXCEPT ![user_id] = record_request(@, clock)],
              admitted |-> [admitted EXCEPT ![user_id] = Append(@, clock)],
              resp |-> CallNext([seen EXCEPT
                          !.recorded = TRUE,
                          !.headers = RateLimitHeaders(rpm_limit, rph_limit,
                                         counts.minute_count, counts.hour_count)])]

\* RateLimiterMiddleware.dispatch: the windows, the cache and the response after
\* the request. rolesUp: the user_roles query answers; ups[i]: the config fetch
\* answers during the i-th get_config; fault: the window store raises.
dispatch(path, auth, rolesUp, ups, fault) ==
    LET c0 == [cache |-> cache, last_refresh |-> last_refresh]
        r0 == Resp0(path, auth)
        same(c, r) == [minute |-> minute_requests, hour |-> hour_requests,
                       admitted |-> admitted, c |-> c, resp |-> r]
    IN  IF path \in EXCLUDED_PATHS THEN same(c0, CallNext(r0))
        ELSE IF auth.scheme # "Bearer" THEN same(c0, CallNext(r0))
        ELSE
        LET user_info == get_user_info(auth, rolesUp)
        IN  IF user_info = None THEN same(c0, CallNext(r0))
            ELSE
            LET user_id == user_info.user_id
                role_ids == user_info.role_ids
                best == get_best_rate_limit(role_ids, c0, ups, clock)
                config == best.config
                r1 == [r0 EXCEPT
                         !.user = user_id, !.role_ids = role_ids, !.config = config,
                         !.win60 = Trailing(admitted[user_id], clock, MinuteWindow),
                         !.win3600 = Trailing(admitted[user_id], clock, HourWindow),
                         !.fetch_failed = Len(role_ids) > 0 /\ CacheExpired(c0, clock)
                                          /\ \A i \in 1..Len(role_ids) : ~ups[i],
                         !.rows_before = {row \in cache : \E i \in 1..Len(role_ids) :
                                                 row.role_id = role_ids[i]}]
            IN  IF Unthrottled(config) THEN same(best.c, CallNext(r1))
                ELSE LET t == Throttle(r1, user_id, config, fault)
                     IN [minute |-> t.minute, hour |-> t.hour, admitted |-> t.admitted,
                         c |-> best.c, resp |-> t.resp]

\* ------------------------------------------------------------ the guards
RoleNames == {"Admin", "Manager"}
Perms == {"users.read", "users.write", "expense.allstores"}
Stores == {1, 2}

\* A Python list without repetitions read as the set of its members.
Range(lst) == {lst[i] : i \in 1..Len(lst)}

\* The credentials of a guarded request: no Authorization header, a bearer token
\* jwt.decode rejects (signature, expiry, audience), a valid token without sub, a
\* valid token of a user.
Credentials == {a \in AuthHeaders : a.scheme \in {"none", "Bearer"}}

\* security = HTTPBearer(): a request without credentials is answered by the
\* scheme itself, before get_current_user runs. The status of that answer is the
\* installed framework's: 403 "Not authenticated" in the releases before the
\* scheme was changed to answer 401 with WWW-Authenticate: Bearer.
HTTPBearerStatuses == {HTTP_403_FORBIDDEN, HTTP_401_UNAUTHORIZED}

\* get_current_user: the identity of the token, or 401 with WWW-Authenticate.
get_current_user_accepts_no_sub(cred) ==
    IF ~cred.valid
    THEN [ok |-> FALSE, status |-> HTTP_401_UNAUTHORIZED, www |-> TRUE, user |-> None]
    ELSE [ok |-> TRUE, status |-> 0, www |-> FALSE,
          user |-> [id |-> cred.sub, email |-> "email", role |-> "authenticated",
                    aud |-> "authenticated"]]

get_current_user(cred) ==
    IF ~cred.valid \/ cred.sub = "-"
    THEN [ok |-> FALSE, status |-> HTTP_401_UNAUTHORIZED, www |-> TRUE, user |-> None]
    ELSE [ok |-> TRUE, status |-> 0, www |-> FALSE,
          user |-> [id |-> cred.sub, email |-> "email", role |-> "authenticated",
                    aud |-> "authenticated"]]

\* RoleService.get_user_roles, as the names of the roles: [] when the query raises
get_user_roles_before_revoke(user_id, up) ==
    IF ~up THEN <<>>
    ELSE IF op.kind = "revoke" /\ op.user = user_id /\ op.role # "-"
    THEN Append(db_role_names[user_id], op.role)
    ELSE db_role_names[user_id]

get_user_roles(user_id, up) == IF up THEN db_role_names[user_id] ELSE <<>>

\* RoleService.get_user_permissions: [] when the rpc raises
get_user_permissions(user_id, up) == IF up THEN db_permissions[user_id] ELSE {}

\* RoleService.get_user_store_ids: [] when the query raises
get_user_store_ids(user_id, up) == IF up THEN db_shops[user_id] ELSE {}

\* any(role in allowed_roles for role in user_role_names)
HasRole_first_only(user_role_names, allowed_roles) ==
    Len(user_role_names) > 0 /\ user_role_names[1] \in Range(allowed_roles)

HasRole(user_role_names, allowed_roles) ==
    \E i \in 1..Len(user_role_names) :
        \E j \in 1..Len(allowed_roles) : user_role_names[i] = allowed_roles[j]

\* all(perm in user_permissions for perm in required_permissions)
HasAllPermissions_any(user_permissions, required_permissions) ==
    \E j \in 1..Len(required_permissions) : required_permissions[j] \in user_permissions

HasAllPermissions(user_permissions, required_permissions) ==
    \A j \in 1..Len(required_permissions) : required_permissions[j] \in user_permissions

\* current_user[key] = value on the identity dict
SetKey(user, key, value) ==
    [k \in DOMAIN user \cup {key} |-> IF k = key THEN value ELSE user[k]]

\* user.get(key, default)
GetKey(user, key, default) == IF key \in DOMAIN user THEN user[key] ELSE default

\* The request a guard works on, as it arrives.
GuardRequest(kind, lst, cred) ==
    [kind |-> kind, list |-> lst, cred |-> cred, pc |-> "token",
     state |-> "Unauthenticated", status |-> 0, www |-> FALSE, user |-> None,
     lookups |-> 0, roles_down |-> FALSE, perms_down |-> FALSE, shops_down |-> FALSE,
     resolved_roles |-> <<>>, resolved_perms |-> {}, resolved_stores |-> {}]

\* role_checker on a validated identity; upRoles, upShops: the store answers the
\* user_roles and the user_shops query.
role_checker(q, allowed_roles, upRoles, upShops) ==
    LET user_id == q.user.id
        user_role_names == get_user_roles(user_id, upRoles)
        q1 == [q EXCEPT !.lookups = @ + 1, !.roles_down = ~upRoles,
                        !.resolved_roles = user_role_names]
    IN  IF ~HasRole(user_role_names, allowed_roles)
        THEN [q1 EXCEPT !.pc = "done", !.state = "Denied",
                        !.status = HTTP_403_FORBIDDEN]
        ELSE LET store_ids == get_user_store_ids(user_id, upShops)
                 enriched == SetKey(SetKey(SetKey(q.user, "roles", user_role_names),
                                           "store_ids", store_ids),
                                    "user_id", user_id)
             IN [q1 EXCEPT !.pc = "done", !.state = "Authorized",
                           !.lookups = @ + 1, !.shops_down = ~upShops,
                           !.resolved_stores = store_ids, !.user = enriched]

\* permission_checker on a validated identity; upPerms, upRoles, upShops: the store
\* answers the rpc, the user_roles and the user_shops query.
permission_checker(q, required_permissions, upPerms, upRoles, upShops) ==
    LET user_id == q.user.id
        user_permissions == get_user_permissions(user_id, upPerms)
        q1 == [q EXCEPT !.lookups = @ + 1, !.perms_down = ~upPerms,
                        !.resolved_perms = user_permissions]
    IN  IF ~HasAllPermissions(user_permissions, required_permissions)
        THEN [q1 EXCEPT !.pc = "done", !.state = "Denied",
                        !.status = HTTP_403_FORBIDDEN]
        ELSE LET user_roles == get_user_roles(user_id, upRoles)
                 store_ids == get_user_store_ids(user_id, upShops)
                 enriched == SetKey(SetKey(SetKey(q.user, "roles", user_roles),
                                           "store_ids", store_ids),
                                    "user_id", user_id)
             IN [q1 EXCEPT !.pc = "done", !.state = "Authorized",
                           !.lookups = @ + 2, !.roles_down = ~upRoles,
                           !.shops_down = ~upShops, !.resolved_roles = user_roles,
                           !.resolved_stores = store_ids, !.user = enriched]

\* has_allstores_permission of the poultry routers, on the identity a guard returned
has_allstores_permission(user) ==
    \/ "Admin" \in Range(GetKey(user, "roles", <<>>))
    \/ "expense.allstores" \in GetKey(user, "permissions", {})
    \/ "cashbook.allstores" \in GetKey(user, "permissions", {})

\* No guarded request is in progress and the authorization tables are empty.
GuardIdle ==
    /\ db_role_names = [u \in Users |-> <<>>]
    /\ db_permissions = [u \in Users |-> {}]
    /\ db_shops = [u \in Users |-> {}]
    /\ g = [GuardRequest("role", <<>>, [scheme |-> "none", valid |-> FALSE, sub |-> "-"])
              EXCEPT !.pc = "idle"]

\* ------------------------------------------------------------- the actions
\* What a request brings and what the store does while it is handled. Inputs the
\* handler never reads on its path (lookups behind an excluded path or behind a
\* credential that names no subject) are held at one value.
Inputs ==
    {i \in [path : Paths, auth : AuthHeaders, rolesUp : BOOLEAN,
            ups : [1..2 -> BOOLEAN], fault : BOOLEAN] :
        \/ i.path \notin EXCLUDED_PATHS /\ i.auth.sub \in Users /\ i.rolesUp
        \/ i.path \notin EXCLUDED_PATHS /\ i.auth.sub \in Users /\ ~i.rolesUp
              /\ ~i.fault /\ \A k \in 1..2 : i.ups[k]
        \/ i.rolesUp /\ ~i.fault /\ \A k \in 1..2 : i.ups[k]}

\* History: what the request brought. It came on an excluded path, without a
\* bearer credential, with a credential that resolves to no subject (the token
\* does not decode, has no sub, or the user_roles query raises), with one whose
\* subject holds no role ids, or identified with role ids.
RequestKind(i) ==
    IF i.path \in EXCLUDED_PATHS THEN "excluded"
    ELSE IF i.auth.scheme # "Bearer" THEN "no_bearer"
    ELSE IF ~i.auth.valid \/ i.auth.sub \notin Users \/ ~i.rolesUp THEN "no_subject"
    ELSE IF Len(db_user_roles[i.auth.sub]) = 0 THEN "no_role_ids"
    ELSE "identified"

\* One request passes through the middleware.
Dispatch ==
    \E i \in Inputs :
        \E d \in {dispatch(i.path, i.auth, i.rolesUp, i.ups, i.fault)} :
            /\ minute_requests' = d.minute
            /\ hour_requests' = d.hour
            /\ admitted' = d.admitted
            /\ cache' = d.c.cache
            /\ last_refresh' = d.c.last_refresh
            /\ resp' = [d.resp EXCEPT
                          !.at = clock,
                          !.request = RequestKind(i),
                          !.touched = (d.minute # minute_requests
                                       \/ d.hour # hour_requests)]
            /\ op' = IF Len(d.resp.role_ids) > 0 THEN OpRead("dispatch") ELSE op
            /\ UNCHANGED <<clock, db_configs, db_user_roles, guardVars, loop>>

\* Time passes.
Tick ==
    /\ \E t \in Instants : t > clock /\ clock' = t
    /\ UNCHANGED <<minute_requests, hour_requests, cache, last_refresh, db_configs,
                   db_user_roles, admitted, resp, guardVars, op, loop>>

\* RateLimitConfigCache.invalidate
Invalidate ==
    /\ \E c \in {invalidate([cache |-> cache, last_refresh |-> last_refresh])} :
          /\ cache' = c.cache
          /\ last_refresh' = c.last_refresh
    /\ op' = [Op0 EXCEPT !.kind = "invalidate", !.invalidated = TRUE,
                         !.ttl_left = ~CacheExpired([cache |-> cache,
                                          last_refresh |-> last_refresh], clock)]
    /\ UNCHANGED <<clock, minute_requests, hour_requests, db_configs,
                   db_user_roles, admitted, resp, guardVars, loop>>

\* Tables rate_limit_configs can hold for the roles rs: at most one row per role.
ConfigTables(rs) ==
    LET choices == {{}} \cup {{row} : row \in UNION {ConfigRows(r) : r \in rs}}
        picks == {f \in [rs -> choices] : \A r \in rs : \A row \in f[r] : row.role_id = r}
    IN  {UNION {f[r] : r \in rs} : f \in picks}

\* The state after start-up, but for the two tables.
InitLimiter ==
    /\ clock = 0
    /\ minute_requests = [u \in Users |-> <<>>]
    /\ hour_requests = [u \in Users |-> <<>>]
    /\ cache = {}
    /\ last_refresh = <<>>
    /\ admitted = [u \in Users |-> <<>>]
    /\ resp = Resp0("/", [scheme |-> "none", valid |-> FALSE, sub |-> "-"])
    /\ op = Op0
    /\ loop = Loop0

\* u1 holds one role, u2 no role; the role has any config row or none.
Init ==
    /\ InitLimiter
    /\ GuardIdle
    /\ db_configs \in ConfigTables({1})
    /\ db_user_roles = [u \in Users |-> IF u = "u1" THEN <<1>> ELSE <<>>]

Next == Dispatch \/ Tick \/ Invalidate

Spec == Init /\ [][Next]_vars

\* u1 holds two roles, in either row order; each role has any config row or none.
\* All requests arrive at one instant.
InitRoles ==
    /\ InitLimiter
    /\ GuardIdle
    /\ db_configs \in ConfigTables(Roles)
    /\ db_user_roles \in {[u \in Users |-> IF u = "u1" THEN l ELSE <<>>] :
                             l \in {<<1, 2>>, <<2, 1>>}}

NextRoles == Dispatch \/ Invalidate

SpecRoles == InitRoles /\ [][NextRoles]_vars

\* ------------------------------------------------------ the limiter's claims
\* The last dispatch identified a subject, found an enabled effective config and
\* ran without an internal fault.
Throttled ==
    /\ resp.user # "-"
    /\ resp.config # None
    /\ resp.config.enabled
    /\ ~resp.caught

\* The history of admitted timestamps of the subject as the last dispatch found it.
HistoryBefore ==
    IF resp.recorded
    THEN SubSeq(admitted[resp.user], 1, Len(admitted[resp.user]) - 1)
    ELSE admitted[resp.user]

\* C1: for an identified subject whose effective config is enabled, dispatch
\* answers 429 exactly when the subject's recorded timestamps in the trailing 60
\* seconds number at least requests_per_minute or those in the trailing 3600
\* seconds at least requests_per_hour; the minute ceiling is checked first
\* (retry_after 60, else 3600), and the Retry-After header is the body's value.
C1_RejectsExactlyOverCeiling ==
    Throttled =>
        LET rpm == resp.config.requests_per_minute
            rph == resp.config.requests_per_hour
        IN  /\ (resp.reject # None) <=> (resp.win60 >= rpm \/ resp.win3600 >= rph)
            /\ resp.win60 >= rpm => resp.reject # None /\ resp.reject.retry_after = 60
            /\ (resp.win60 < rpm /\ resp.win3600 >= rph)
                    => resp.reject # None /\ resp.reject.retry_after = 3600
            /\ resp.reject # None
                    => /\ resp.reject.status = 429
                       /\ IntOf(resp.reject.retry_after_header) = resp.reject.retry_after
                       /\ resp.calls = 0

\* C1's case: the hour ceiling alone rejects a request.
C1_Witness ==
    /\ Throttled
    /\ resp.reject # None
    /\ resp.reject.retry_after = 3600
    /\ resp.win60 < resp.config.requests_per_minute
    /\ resp.win3600 >= resp.config.requests_per_hour

\* C2: with requests_per_minute = L and the hour ceiling not binding, a request
\* that finds fewer than L admitted requests inside the trailing 60 seconds is
\* admitted, one that finds L of them is rejected with retry_after 60, and once the
\* clock is past 60 seconds from the L-th latest admitted request the next request
\* is admitted again.
C2_SlidingWindowBoundary ==
    (Throttled /\ resp.win3600 < resp.config.requests_per_hour) =>
        LET L == resp.config.requests_per_minute
            H == HistoryBefore
            inWindow == {i \in 1..Len(H) : resp.at - H[i] < 60}
        IN  /\ Cardinality(inWindow) < L => resp.recorded /\ resp.reject = None
            /\ Cardinality(inWindow) >= L
                   => resp.reject # None /\ resp.reject.retry_after = 60
            /\ (Len(H) >= L /\ resp.at - H[Len(H) - L + 1] > 60)
                   => resp.recorded /\ resp.reject = None /\ resp.calls = 1

\* C2's case: L requests were admitted, and a request past 60 seconds from the
\* first of them is admitted.
C2_Witness ==
    /\ Throttled
    /\ resp.win3600 < resp.config.requests_per_hour
    /\ Len(HistoryBefore) = resp.config.requests_per_minute
    /\ resp.at - HistoryBefore[1] > 60
    /\ resp.recorded

CallerRows == {row \in cache : row.role_id \in Range(resp.role_ids)}

\* C9: the per-minute ceiling enforced equals the maximum requests_per_minute
\* over the caller's enabled role configs.
C9_MostPermissiveEnabled ==
    (resp.user # "-" /\ ~resp.caught /\ \E row \in CallerRows : row.enabled) =>
        LET enabledRows == {row \in CallerRows : row.enabled}
            ceiling == CHOOSE m \in {row.requests_per_minute : row \in enabledRows} :
                           \A row \in enabledRows : row.requests_per_minute <= m
        IN  /\ resp.checked
            /\ resp.config.requests_per_minute = ceiling
            /\ (resp.reject # None /\ resp.reject.retry_after = 60)
                   <=> resp.win60 >= ceiling

\* C10: when none of the caller's roles has a config, or the winning config (the
\* row _get_best_rate_limit settles on, one of the caller's rows) is disabled, the
\* request is forwarded, not answered with 429, and the windows are left as they
\* were.
C10_UnthrottledPassThrough ==
    resp.user # "-" =>
        /\ resp.config # None => resp.config \in CallerRows
        /\ (CallerRows = {} \/ (resp.config # None /\ ~resp.config.enabled))
              => /\ resp.calls = 1
                 /\ resp.reject = None
                 /\ ~resp.recorded
                 /\ ~resp.touched
                 /\ resp.headers = None

\* C10's case: a caller whose winning config is disabled, beside an enabled one.
C10_Witness ==
    /\ resp.user = "u1"
    /\ resp.config # None
    /\ ~resp.config.enabled
    /\ \E row \in CallerRows : row.enabled
    /\ resp.calls = 1

\* ----------------------------------------------------- the guarded requests
AllowedLists == {<<>>, <<"Admin">>, <<"Manager">>, <<"Admin", "Manager">>}
RequiredLists == {<<>>, <<"users.read">>, <<"users.read", "users.write">>}

\* A request arrives at an endpoint behind require_role(lst) or
\* require_permission(lst).
Arrive ==
    /\ g.pc \in {"idle", "done"}
    /\ \E cred \in Credentials :
        \/ \E lst \in AllowedLists : g' = GuardRequest("role", lst, cred)
        \/ \E lst \in RequiredLists : g' = GuardRequest("permission", lst, cred)
    /\ UNCHANGED <<limiterVars, db_role_names, db_permissions, db_shops, op>>

\* Depends(get_current_user) with Depends(security): the Token Validator.
TokenValidator ==
    /\ g.pc = "token"
    /\ IF g.cred.scheme = "none"
       THEN \E st \in HTTPBearerStatuses :
               g' = [g EXCEPT !.pc = "done", !.status = st,
                              !.www = (st = HTTP_401_UNAUTHORIZED)]
       ELSE LET r == get_current_user(g.cred)
            IN  IF r.ok
                THEN g' = [g EXCEPT !.pc = "guard", !.state = "Unresolved",
                                    !.user = r.user]
                ELSE g' = [g EXCEPT !.pc = "done", !.status = r.status, !.www = r.www]
    /\ UNCHANGED <<limiterVars, db_role_names, db_permissions, db_shops, op>>

\* The history after a guard looked the caller up: a revocation recorded in op
\* came before this evaluation.
Evaluated == IF op.kind = "revoke" THEN [op EXCEPT !.evaluated = TRUE] ELSE op

\* The body of role_checker.
RoleChecker ==
    /\ g.pc = "guard" /\ g.kind = "role"
    /\ \E upRoles, upShops \in BOOLEAN :
          g' = role_checker(g, g.list, upRoles, upShops)
    /\ op' = Evaluated
    /\ UNCHANGED <<limiterVars, db_role_names, db_permissions, db_shops>>

\* The body of permission_checker.
PermissionChecker ==
    /\ g.pc = "guard" /\ g.kind = "permission"
    /\ \E upPerms, upRoles, upShops \in BOOLEAN :
          g' = permission_checker(g, g.list, upPerms, upRoles, upShops)
    /\ op' = Evaluated
    /\ UNCHANGED <<limiterVars, db_role_names, db_permissions, db_shops>>

RoleNameLists == {<<>>, <<"Manager">>, <<"Admin">>, <<"Admin", "Manager">>}

\* The limiter idle; u1 with any role names, permission keys and shops.
InitGuard ==
    /\ InitLimiter
    /\ db_configs = {}
    /\ db_user_roles = [u \in Users |-> <<>>]
    /\ db_role_names \in {[u \in Users |-> IF u = "u1" THEN l ELSE <<>>] :
                             l \in RoleNameLists}
    /\ db_permissions \in {[u \in Users |-> IF u = "u1" THEN p ELSE {}] :
                              p \in SUBSET Perms}
    /\ db_shops \in {[u \in Users |-> IF u = "u1" THEN h ELSE {}] : h \in SUBSET Stores}
    /\ g = [GuardRequest("role", <<>>, [scheme |-> "none", valid |-> FALSE, sub |-> "-"])
              EXCEPT !.pc = "idle"]

NextGuard == Arrive \/ TokenValidator \/ RoleChecker \/ PermissionChecker

SpecGuard == InitGuard /\ [][NextGuard]_vars

\* lst without its i-th entry
RemoveAt(lst, i) == SubSeq(lst, 1, i - 1) \o SubSeq(lst, i + 1, Len(lst))

\* remove_role_from_user, or remove_permission_from_role for a key the user
\* resolves: the store loses one role assignment or one permission of a user.
Revoke ==
    /\ \E u \in Users :
          \/ \E i \in 1..Len(db_role_names[u]) :
                /\ db_role_names' = [db_role_names EXCEPT ![u] = RemoveAt(@, i)]
                /\ op' = [kind |-> "revoke", user |-> u, role |-> db_role_names[u][i],
                          perm |-> "-", evaluated |-> FALSE]
                /\ UNCHANGED db_permissions
          \/ \E p \in db_permissions[u] :
                /\ db_permissions' = [db_permissions EXCEPT ![u] = @ \ {p}]
                /\ op' = [kind |-> "revoke", user |-> u, role |-> "-",
                          perm |-> p, evaluated |-> FALSE]
                /\ UNCHANGED db_role_names
    /\ UNCHANGED <<limiterVars, db_shops, g>>

NextRevoke == NextGuard \/ Revoke

\* Guarded requests while role assignments and permissions are revoked.
SpecRevoke == InitGuard /\ [][NextRevoke]_vars

\* ------------------------------------------------------- the guards' claims
\* The guard finished on a caller whose token validated.
Decided == g.pc = "done" /\ g.user # None

\* What the store holds for the caller, or nothing where the lookup of the
\* request found the store unreachable.
StoreRoles == IF g.roles_down THEN <<>> ELSE db_role_names[g.user.id]
StorePerms == IF g.perms_down THEN {} ELSE db_permissions[g.user.id]
StoreShops == IF g.shops_down THEN {} ELSE db_shops[g.user.id]

\* C4: a request whose role or permission lookup found the store unreachable
\* never reaches Authorized, whatever list the guard was built with.
C4_FailsClosed ==
    (g.pc = "done" /\ (g.roles_down \/ g.perms_down)) => g.state # "Authorized"

\* C5: require_permission(required) authorizes an authenticated caller exactly
\* when every required key is in the caller's resolved permissions; every superset
\* of an authorized caller's permissions is authorized too; a caller missing a
\* required key is denied with 403.
C5_PermissionGuard ==
    (Decided /\ g.kind = "permission") =>
        /\ g.state = "Authorized" <=> Range(g.list) \subseteq StorePerms
        /\ g.state # "Authorized" => g.state = "Denied" /\ g.status = 403
        /\ g.state = "Authorized"
              => \A G \in SUBSET Perms :
                    StorePerms \subseteq G => HasAllPermissions(G, g.list)
        /\ \A k \in Range(g.list) :
              HasAllPermissions(StorePerms \cup Range(g.list), g.list)
              /\ ~HasAllPermissions((StorePerms \cup Range(g.list)) \ {k}, g.list)

\* C5's case: a caller holding more than the two required keys is authorized.
C5_Witness ==
    /\ Decided /\ g.kind = "permission"
    /\ g.state = "Authorized"
    /\ Len(g.list) = 2
    /\ Range(g.list) # StorePerms

\* C6: require_role(allowed) denies with 403 unless allowed and the caller's
\* resolved role names intersect; an authorized identity carries exactly the
\* resolved role names and store ids, a denied one neither.
C6_RoleGuard ==
    (Decided /\ g.kind = "role") =>
        /\ g.state = "Authorized" <=> Range(g.list) \cap Range(StoreRoles) # {}
        /\ g.state # "Authorized"
              => /\ g.state = "Denied" /\ g.status = 403
                 /\ "roles" \notin DOMAIN g.user
                 /\ "store_ids" \notin DOMAIN g.user
        /\ g.state = "Authorized"
              => /\ g.user.roles = StoreRoles
                 /\ g.user.store_ids = StoreShops
                 /\ g.status = 0

\* C6's case: allowed {Manager}, a caller resolved to Admin and Manager with shops.
C6_Witness ==
    /\ Decided /\ g.kind = "role"
    /\ g.list = <<"Manager">>
    /\ g.state = "Authorized"
    /\ g.user.roles = <<"Admin", "Manager">>
    /\ g.user.store_ids # {}

\* C7: a request with a missing or invalid token ends Unauthenticated, answered
\* 401 with WWW-Authenticate: Bearer, and no lookup was issued to the store.
C7_UnauthenticatedFirst ==
    (g.pc = "done" /\ (g.cred.scheme = "none" \/ ~g.cred.valid \/ g.cred.sub = "-")) =>
        /\ g.state = "Unauthenticated"
        /\ g.status = 401
        /\ g.www
        /\ g.lookups = 0

\* What holds of C7 on every build: no lookup is issued for such a request, it
\* ends Unauthenticated, and an invalid token is answered 401 with the header.
C7_NoLookupBeforeToken ==
    (g.pc = "done" /\ (g.cred.scheme = "none" \/ ~g.cred.valid \/ g.cred.sub = "-")) =>
        /\ g.state = "Unauthenticated"
        /\ g.lookups = 0
        /\ g.user = None
        /\ g.cred.scheme # "none" => g.status = 401 /\ g.www

\* C8: the identity the permission guard returns carries the caller's roles, the
\* resolved permission set and the store ids.
C8_PermissionsEnriched ==
    (Decided /\ g.kind = "permission" /\ g.state = "Authorized") =>
        /\ g.user.roles = StoreRoles
        /\ g.user.store_ids = StoreShops
        /\ "permissions" \in DOMAIN g.user
        /\ GetKey(g.user, "permissions", {}) = StorePerms
        /\ "expense.allstores" \in StorePerms => has_allstores_permission(g.user)

\* ------------------------------------------------- the operator's edits
\* RateLimitConfigUpdate: each field <<v>>, or <<>> for None. The bodies sent
\* leave requests_per_hour alone and set requests_per_minute, enabled, or neither.
ConfigUpdates ==
    {u \in [requests_per_minute : {<<>>} \cup {<<n>> : n \in 0..MaxRpm},
            requests_per_hour : {<<>>},
            enabled : {<<>>} \cup {<<b>> : b \in BOOLEAN}] :
        u.requests_per_minute = <<>> \/ u.enabled = <<>>}

\* update_data = {k: v for k, v in config_data.dict().items() if v is not None}
update_data(config_data) == {k \in DOMAIN config_data : config_data[k] # <<>>}

\* The row of the table after update(update_data).
ApplyUpdate(row, data) ==
    [k \in DOMAIN row |-> IF k \in DOMAIN data /\ data[k] # <<>> THEN data[k][1]
                                                                 ELSE row[k]]

\* if response.data: rate_limit_config_cache.invalidate()
AfterWrite_keeps_cache(c, written) == c

AfterWrite(c, written) == IF written THEN invalidate(c) ELSE c

\* select('*').eq('id', config_id).single(): the row an edit is about, or None
Existing(role_id) == CacheGet(db_configs, role_id)

\* An edit handler: the row of role_id becomes new unless the store raises (up
\* false), the row does not exist, or there is nothing to write.
Edit(kind, role_id, write, new, up) ==
    LET existing == Existing(role_id)
        c0 == [cache |-> cache, last_refresh |-> last_refresh]
        written == up /\ existing # None /\ write
        c1 == AfterWrite(c0, written)
    IN  /\ db_configs' = IF written THEN (db_configs \ {existing}) \cup {new}
                                     ELSE db_configs
        /\ cache' = c1.cache
        /\ last_refresh' = c1.last_refresh
        /\ op' = [Op0 EXCEPT !.kind = kind, !.role_id = role_id,
                             !.changed = written /\ new # existing,
                             !.invalidated = c1.last_refresh = <<>>,
                             !.ttl_left = ~CacheExpired(c0, clock)]
        /\ UNCHANGED <<clock, minute_requests, hour_requests, db_user_roles,
                       admitted, resp, guardVars, loop>>

\* PUT /{config_id}: update_rate_limit_config
UpdateRateLimitConfig ==
    \E role_id \in Roles, config_data \in ConfigUpdates, up \in BOOLEAN :
        Edit("update", role_id, update_data(config_data) # {},
             IF Existing(role_id) = None THEN None
             ELSE ApplyUpdate(Existing(role_id), config_data), up)

\* POST /{config_id}/toggle: toggle_rate_limit
ToggleRateLimit ==
    \E role_id \in Roles, up \in BOOLEAN :
        Edit("toggle", role_id, TRUE,
             IF Existing(role_id) = None THEN None
             ELSE [Existing(role_id) EXCEPT !.enabled = ~@], up)

\* One call of rate_limit_config_cache.get_config(role_id).
GetConfig ==
    \E role_id \in Roles, up \in BOOLEAN :
        LET c0 == [cache |-> cache, last_refresh |-> last_refresh]
        IN  \E got \in {get_config(c0, role_id, up, clock)} :
               /\ cache' = got.c.cache
               /\ last_refresh' = got.c.last_refresh
               /\ op' = [OpRead("get_config") EXCEPT
                            !.role_id = role_id,
                            !.old = CacheGet(cache, role_id),
                            !.fetched = CacheExpired(c0, clock),
                            !.up = up,
                            !.answer = got.config,
                            !.empty = (cache = {}),
                            !.never = (last_refresh = <<>>),
                            !.older = (last_refresh # <<>>
                                       /\ clock - last_refresh[1] > TTL),
                            !.on_edge = (last_refresh # <<>>
                                         /\ clock - last_refresh[1] = TTL),
                            !.kept = (got.c = c0)]
               /\ UNCHANGED <<clock, minute_requests, hour_requests, db_configs,
                              db_user_roles, admitted, resp, guardVars, loop>>

NextCache ==
    GetConfig \/ Invalidate \/ Tick \/ UpdateRateLimitConfig \/ ToggleRateLimit

\* The cache read on its own while time passes and operators edit the table.
SpecCache == Init /\ [][NextCache]_vars

NextEdit == Dispatch \/ UpdateRateLimitConfig \/ ToggleRateLimit

\* Requests and operators' edits inside one TTL of the cache: only invalidate()
\* can make the limiter read the table again.
SpecEdit == Init /\ [][NextEdit]_vars

\* -------------------------------------------------- the cache's claims
\* C11: the get_config call that comes next after invalidate() issues a fetch
\* however much of the TTL remained, and, the store answering it, returns the row
\* the table holds for the requested role and leaves the cache equal to the table.
\* (A fetch that raises is swallowed and the row cached before is returned: C3.)
C11_InvalidateForcesFetch ==
    (op.kind = "get_config" /\ op.invalidated) =>
        /\ op.fetched
        /\ op.up => /\ op.answer = CacheGet(db_configs, op.role_id)
                    /\ cache = db_configs
                    /\ last_refresh # <<>>
        /\ ~op.up => op.answer = op.old /\ last_refresh = <<>>

\* C11's case: invalidate() came with TTL remaining and a row cached; the next
\* get_config returns the table's row, which is not the row cached before.
C11_Witness ==
    /\ op.kind = "get_config" /\ op.invalidated
    /\ op.ttl_left
    /\ op.up
    /\ op.old # None
    /\ op.answer # None
    /\ op.answer # op.old

\* The config the limiter settles on for role ids <<1>> when it reads rows.
BestOfTable(rows) ==
    LET row == CacheGet(rows, 1)
    IN  IF Better(row, 0) THEN row ELSE None

RevokedBefore ==
    /\ op.kind = "revoke" /\ op.evaluated
    /\ Decided
    /\ op.user = g.user.id

\* C13: a guard evaluation that starts after a role assignment or a permission
\* was removed decides on what the store holds then: it authorizes only on roles
\* or permissions still held, denies with 403 a request that needed the revoked
\* one, and an authorized identity does not carry the revoked role.
C13_RevocationImmediate ==
    RevokedBefore =>
        LET held == Range(db_role_names[g.user.id])
            granted == db_permissions[g.user.id]
        IN  /\ g.kind = "role" =>
                /\ g.state = "Authorized" => Range(g.list) \cap held # {}
                /\ ~g.roles_down
                      => (g.state = "Authorized" <=> Range(g.list) \cap held # {})
                /\ (op.role \in Range(g.list) /\ Range(g.list) \cap held = {})
                      => g.state = "Denied" /\ g.status = 403
            /\ g.kind = "permission" =>
                /\ g.state = "Authorized" => Range(g.list) \subseteq granted
                /\ ~g.perms_down
                      => (g.state = "Authorized" <=> Range(g.list) \subseteq granted)
                /\ op.perm \in Range(g.list) => g.state = "Denied" /\ g.status = 403
            /\ g.state = "Authorized" => op.role \notin Range(g.user.roles)

\* C13's case: Admin is revoked from a user who keeps Manager, and the next
\* request to an Admin-only endpoint is denied on an answering store.
C13_Witness ==
    /\ RevokedBefore
    /\ g.kind = "role"
    /\ op.role = "Admin"
    /\ g.list = <<"Admin">>
    /\ ~g.roles_down
    /\ g.resolved_roles = <<"Manager">>
    /\ g.state = "Denied"

\* ------------------------------------------------------ tenant scope
\* The store ids of requests: the shops users are assigned, and one nobody is.
StoreIds == Stores \cup {3}

\* validate_store_access(store_id, user)
validate_store_access_ignores_admin(store_id, user) ==
    store_id \in GetKey(user, "store_ids", {})

validate_store_access(store_id, user) ==
    IF "Admin" \in Range(GetKey(user, "roles", <<>>))
    THEN TRUE
    ELSE store_id \in GetKey(user, "store_ids", {})

\* A handler behind a guard checks the store of the request against the identity
\* the guard returned.
StoreAccess ==
    /\ g.pc = "done" /\ g.state = "Authorized"
    /\ \E store_id \in StoreIds :
          g' = [k \in DOMAIN g \cup {"store_id", "access"} |->
                  IF k = "store_id" THEN store_id
                  ELSE IF k = "access" THEN validate_store_access(store_id, g.user)
                  ELSE g[k]]
    /\ UNCHANGED <<limiterVars, db_role_names, db_permissions, db_shops, op>>

NextTenant == NextGuard \/ StoreAccess

\* Guarded requests whose handlers check the store of the request.
SpecTenant == InitGuard /\ [][NextTenant]_vars

\* C14: the store check passes exactly when Admin is among the enriched
\* identity's roles or the store id is among its store ids; an Admin identity
\* passes for every store id, a non-admin identity without store ids for none.
C14_TenantScope ==
    (g.pc = "done" /\ "access" \in DOMAIN g) =>
        LET admin == \E i \in 1..Len(g.user.roles) : g.user.roles[i] = "Admin"
        IN  /\ g.access <=> (admin \/ g.store_id \in g.user.store_ids)
            /\ admin => g.access
            /\ (~admin /\ g.user.store_ids = {}) => ~g.access

\* C14's case: an Admin passes for a store it is not assigned to.
C14_Witness ==
    /\ g.pc = "done" /\ "access" \in DOMAIN g
    /\ g.access
    /\ g.user.roles = <<"Admin">>
    /\ g.store_id \notin g.user.store_ids
    /\ g.user.store_ids # {}

\* --------------------------------------------------- the Token Validator
\* Bearer tokens: the secret they are signed with, their exp claim, their aud
\* claim and their sub claim ("-": none).
Tokens ==
    [secret : {"SUPABASE_JWT_SECRET", "other"}, exp : {0, 60, 3600},
     aud : {"authenticated", "other"}, sub : Users \cup {"-"}]

\* jwt.decode(token, settings.SUPABASE_JWT_SECRET, algorithms=["HS256"],
\* audience="authenticated") at time now: TRUE when it returns the payload, FALSE
\* when it raises JWTError (signature, exp before now, audience).
jwt_decode(token, now) ==
    /\ token.secret = "SUPABASE_JWT_SECRET"
    /\ ~(token.exp < now)
    /\ token.aud = "authenticated"

\* The credentials HTTPBearer hands over for a token.
BearerCredentials(token, now) ==
    [scheme |-> "Bearer", valid |-> jwt_decode(token, now), sub |-> token.sub]

\* get_optional_user: None without credentials, and None when get_current_user
\* raises HTTPException.
get_optional_user(supplied, cred) ==
    LET anonymous == [ok |-> TRUE, status |-> 0, www |-> FALSE, user |-> None]
    IN  IF ~supplied THEN anonymous
        ELSE LET r == get_current_user(cred)
             IN  IF r.ok THEN r ELSE anonymous

\* An endpoint with Depends(get_current_user) receives a bearer token.
GetCurrentUser ==
    /\ \E token \in Tokens :
          g' = [pc |-> "done", kind |-> "required", supplied |-> TRUE,
                token |-> token, at |-> clock,
                out |-> get_current_user(BearerCredentials(token, clock))]
    /\ UNCHANGED <<limiterVars, db_role_names, db_permissions, db_shops, op>>

\* An endpoint with Depends(get_optional_user) receives a bearer token or no
\* credentials.
GetOptionalUser ==
    /\ \E token \in Tokens, supplied \in BOOLEAN :
          g' = [pc |-> "done", kind |-> "optional", supplied |-> supplied,
                token |-> token, at |-> clock,
                out |-> get_optional_user(supplied, BearerCredentials(token, clock))]
    /\ UNCHANGED <<limiterVars, db_role_names, db_permissions, db_shops, op>>

\* The state after start-up with empty tables.
InitToken ==
    /\ InitLimiter
    /\ GuardIdle
    /\ db_configs = {}
    /\ db_user_roles = [u \in Users |-> <<>>]

NextToken == GetCurrentUser \/ GetOptionalUser \/ Tick

SpecToken == InitToken /\ [][NextToken]_vars

\* The token of the last validation is signed with the configured secret, not
\* past its expiry, and of the expected audience.
TokenGood ==
    /\ g.token.secret = "SUPABASE_JWT_SECRET"
    /\ g.token.exp >= g.at
    /\ g.token.aud = "authenticated"

\* C15: get_current_user returns an identity whose id is the sub claim for a token
\* signed with the configured secret, unexpired, of the expected audience and
\* carrying sub; a wrong signature, a past expiry, a wrong audience or a missing
\* sub yields 401 with WWW-Authenticate: Bearer and no identity.
C15_TokenValidity ==
    (g.pc = "done" /\ g.kind = "required") =>
        /\ (TokenGood /\ g.token.sub # "-")
              => g.out.ok /\ g.out.user # None /\ g.out.user.id = g.token.sub
        /\ (g.token.secret # "SUPABASE_JWT_SECRET" \/ g.token.exp < g.at
               \/ g.token.aud # "authenticated" \/ g.token.sub = "-")
              => /\ ~g.out.ok
                 /\ g.out.status = 401
                 /\ g.out.www
                 /\ g.out.user = None

\* C15's case: a token good in every respect but its missing sub is refused.
C15_Witness ==
    /\ g.pc = "done" /\ g.kind = "required"
    /\ TokenGood
    /\ g.token.sub = "-"
    /\ g.out.status = 401

\* C16: get_optional_user is anonymous when no credential is supplied, and with a
\* credential supplied gives what get_current_user gives: the identity for a
\* valid token, Unauthenticated (401) for an invalid or expired one.
C16_OptionalSameAsRequired ==
    (g.pc = "done" /\ g.kind = "optional") =>
        /\ ~g.supplied => g.out.ok /\ g.out.user = None
        /\ g.supplied => g.out = get_current_user(BearerCredentials(g.token, g.at))
        /\ (g.supplied /\ ~TokenGood) => ~g.out.ok /\ g.out.status = 401

\* ------------------------------------------------------ the field filter
Fields == {"id", "email", "phone"}
FieldValues == {1, 2}
FieldPerms == {"users.field.email", "users.field.phone"}

\* dicts as the sequence of their items <<key, value>>, keys distinct
Records ==
    {d \in UNION {[1..n -> Fields \X FieldValues] : n \in 0..Cardinality(Fields)} :
        \A i, j \in 1..Len(d) : d[i][1] = d[j][1] => i = j}

\* field_config: field name -> required permission key
FieldConfigs == UNION {[D -> FieldPerms] : D \in SUBSET Fields}

\* always_include: <<>> for None, else <<the set>>
AlwaysIncludes == {<<>>} \cup {<<a>> : a \in SUBSET {"id", "email"}}

\* if always_include is None: always_include = {"id"}
DefaultAlways(always_include) ==
    IF always_include = <<>> THEN {"id"} ELSE always_include[1]

\* The if / elif / else of the loop body: is the item of this key copied?
Permitted_unmapped_hidden(key, user_permissions, field_config, always) ==
    IF key \in always THEN TRUE
    ELSE key \in DOMAIN field_config /\ field_config[key] \in user_permissions

Permitted(key, user_permissions, field_config, always) ==
    IF key \in always THEN TRUE
    ELSE IF key \in DOMAIN field_config
    THEN field_config[key] \in user_permissions
    ELSE TRUE

RECURSIVE FilterLoop(_, _, _, _, _, _)
\* for key, value in data.items() from item i on, result built so far
FilterLoop(data, i, user_permissions, field_config, always, result) ==
    IF i > Len(data) THEN result
    ELSE FilterLoop(data, i + 1, user_permissions, field_config, always,
                    IF Permitted(data[i][1], user_permissions, field_config, always)
                    THEN Append(result, data[i])
                    ELSE result)

\* filter_fields
filter_fields_skips_first(data, user_permissions, field_config, always_include) ==
    FilterLoop(data, 2, user_permissions, field_config,
               DefaultAlways(always_include), <<>>)

filter_fields(data, user_permissions, field_config, always_include) ==
    FilterLoop(data, 1, user_permissions, field_config,
               DefaultAlways(always_include), <<>>)

\* filter_fields_list
filter_fields_list(data_list, user_permissions, field_config, always_include) ==
    [n \in 1..Len(data_list) |->
        filter_fields(data_list[n], user_permissions, field_config, always_include)]

\* A handler holds a record to return, the caller's permissions, a field map and
\* an always_include argument.
InitFilter ==
    /\ InitLimiter
    /\ db_configs = {}
    /\ db_user_roles = [u \in Users |-> <<>>]
    /\ db_role_names = [u \in Users |-> <<>>]
    /\ db_permissions = [u \in Users |-> {}]
    /\ db_shops = [u \in Users |-> {}]
    /\ g \in [pc : {"filter"}, data : Records, user_permissions : SUBSET FieldPerms,
              field_config : FieldConfigs, always_include : AlwaysIncludes,
              out : {<<>>}, again : {<<>>}, list : {<<>>}]

\* The handler filters the record.
FilterFields ==
    /\ g.pc = "filter"
    /\ g' = [g EXCEPT !.pc = "filtered",
                      !.out = filter_fields(g.data, g.user_permissions,
                                            g.field_config, g.always_include)]
    /\ UNCHANGED <<limiterVars, db_role_names, db_permissions, db_shops, op>>

\* The filtered record is filtered once more with the same arguments.
FilterAgain ==
    /\ g.pc = "filtered"
    /\ g' = [g EXCEPT !.pc = "refiltered",
                      !.again = filter_fields(g.out, g.user_permissions,
                                              g.field_config, g.always_include)]
    /\ UNCHANGED <<limiterVars, db_role_names, db_permissions, db_shops, op>>

\* The handler filters a list: the record and the record without its first item.
FilterFieldsList ==
    /\ g.pc = "refiltered"
    /\ g' = [g EXCEPT !.pc = "listed",
                      !.list = filter_fields_list(
                                   <<g.data, SubSeq(g.data, 2, Len(g.data))>>,
                                   g.user_permissions, g.field_config,
                                   g.always_include)]
    /\ UNCHANGED <<limiterVars, db_role_names, db_permissions, db_shops, op>>

NextFilter == FilterFields \/ FilterAgain \/ FilterFieldsList

SpecFilter == InitFilter /\ [][NextFilter]_vars

\* The field names of a record.
Keys(d) == {d[i][1] : i \in 1..Len(d)}

\* C17: filter_fields returns the items of the record, values and order
\* unchanged, whose field is in always_include (None standing for {"id"}), or is
\* absent from the field map, or maps to a permission the caller holds; with no
\* permissions held these are exactly the always_include and the unmapped fields.
C17_FieldFilterPolicy ==
    g.pc \in {"filtered", "refiltered", "listed"} =>
        LET A == IF g.always_include = <<>> THEN {"id"} ELSE g.always_include[1]
            keep(item) == \/ item[1] \in A
                          \/ item[1] \notin DOMAIN g.field_config
                          \/ g.field_config[item[1]] \in g.user_permissions
        IN  /\ g.out = SelectSeq(g.data, keep)
            /\ g.user_permissions = {}
                  => Keys(g.out) = {k \in Keys(g.data) :
                                       k \in A \/ k \notin DOMAIN g.field_config}
            /\ g.pc = "listed"
                  => /\ Len(g.list) = 2
                     /\ g.list[1] = g.out
                     /\ g.list[2] = SelectSeq(SubSeq(g.data, 2, Len(g.data)), keep)

\* C17's case: every field is mapped, id is kept by always_include, email by the
\* caller's permission, and phone is dropped.
C17_Witness ==
    /\ g.pc = "filtered"
    /\ Keys(g.data) = Fields
    /\ DOMAIN g.field_config = Fields
    /\ g.always_include = <<{"id"}>>
    /\ g.user_permissions = {"users.field.email"}
    /\ Keys(g.out) = {"id", "email"}

\* C18: filtering the filtered record again with the same permissions, field map
\* and always_include returns the filtered record.
C18_FilterIdempotent ==
    g.pc \in {"refiltered", "listed"} => g.again = g.out

\* C18's case: the first pass dropped a field and kept two.
C18_Witness ==
    /\ g.pc = "refiltered"
    /\ Len(g.data) = 3
    /\ Len(g.out) = 2
    /\ g.again = g.out

\* ------------------------------------------------------ the resolver
\* C19: a lookup that finds the store unreachable is surfaced as a resolution
\* error (ServiceUnavailable, 503), never handed to the guard as an empty set of
\* roles, permissions or store ids.
C19_ResolverSurfacesFailure ==
    (Decided /\ (g.roles_down \/ g.perms_down \/ g.shops_down)) =>
        /\ g.state = "ServiceUnavailable"
        /\ g.status = 503
        /\ ~(g.roles_down /\ g.resolved_roles = <<>>)
        /\ ~(g.perms_down /\ g.resolved_perms = {})
        /\ ~(g.shops_down /\ g.resolved_stores = {})

\* ------------------------------------------------------ pass-through
\* C20: a request on an excluded path, without a bearer credential, or whose
\* credential resolves to no subject with role ids reaches the handler once, is
\* not answered with 429, gets no rate-limit headers, and leaves the windows of
\* every subject as they were.
C20_PassThroughNoOp ==
    resp.request \in {"excluded", "no_bearer", "no_subject", "no_role_ids"} =>
        /\ resp.calls = 1
        /\ resp.reject = None
        /\ resp.headers = None
        /\ ~resp.touched
        /\ ~resp.recorded
        /\ ~resp.checked

\* C20's case: a subject's window is at its ceiling and a request whose
\* user_roles query raised is forwarded.
C20_Witness ==
    /\ resp.request = "no_subject"
    /\ resp.calls = 1
    /\ \E row \in cache :
          /\ row.role_id = 1 /\ row.enabled
          /\ row.requests_per_minute >= 1
          /\ Len(minute_requests["u1"]) >= row.requests_per_minute

\* ------------------------------------------------------ admission
Last(lst) == lst[Len(lst)]

\* C21: an admitted request has its timestamp appended to the subject's minute
\* and hour window before the handler is called, and the remaining-quota headers
\* are max(0, limit - count - 1) of the counts read before the append, never
\* negative.
C21_RecordThenHeaders ==
    resp.recorded =>
        LET rpm_limit == resp.config.requests_per_minute
            rph_limit == resp.config.requests_per_hour
            m == minute_requests[resp.user]
            h == hour_requests[resp.user]
            left(limit, count) == IF limit - count - 1 > 0 THEN limit - count - 1 ELSE 0
        IN  /\ Len(m) = resp.minute_count + 1 /\ Last(m) = resp.at
            /\ Len(h) = resp.hour_count + 1 /\ Last(h) = resp.at
            /\ resp.minute_count = resp.win60
            /\ resp.hour_count = resp.win3600
            /\ resp.calls = 1 /\ resp.recorded_before_call
            /\ IntOf(resp.headers.remaining_minute) = left(rpm_limit, resp.win60)
            /\ IntOf(resp.headers.remaining_hour) = left(rph_limit, resp.win3600)
            /\ IntOf(resp.headers.remaining_minute) >= 0
            /\ IntOf(resp.headers.remaining_hour) >= 0
            /\ IntOf(resp.headers.limit_minute) = rpm_limit
            /\ IntOf(resp.headers.limit_hour) = rph_limit

\* C21's case: the second request of a minute is admitted under a ceiling of two
\* per minute, and the header shows no quota left.
C21_Witness ==
    /\ resp.recorded
    /\ resp.minute_count = 1
    /\ Len(minute_requests[resp.user]) = 2
    /\ resp.headers.remaining_minute = <<0>>
    /\ resp.config.requests_per_minute = 2

\* ------------------------------------------------------ the cache's reads
\* C22 as stated: a read fetches from the store exactly when the cached mapping
\* is empty or the last refresh is older than the TTL.
C22_FetchIffEmptyOrOlder ==
    op.kind = "get_config" => (op.fetched <=> (op.empty \/ op.older))

\* C22 amended: a read fetches exactly when last_refresh is None (no fetch has
\* succeeded yet, or invalidate() was called since) or older than the TTL; every
\* other read, a mapping fetched empty included, returns the cached row and
\* leaves cache and last_refresh as they are.
C22_FetchIffNoneOrOlder ==
    op.kind = "get_config" =>
        /\ op.fetched <=> (op.never \/ op.older)
        /\ ~op.fetched => op.answer = op.old /\ op.kept

\* C22's case: a read exactly one TTL after the refresh is answered with the
\* cached row, the store not contacted.
C22_Witness ==
    /\ op.kind = "get_config"
    /\ ~op.fetched
    /\ op.on_edge
    /\ ~op.empty
    /\ op.answer # None

\* ------------------------------------------------ the decision's state machine
\* A guarded request reached a terminal state: the handler runs, or 401, or 403.
Terminal(q) ==
    \/ q.state = "Authorized" /\ q.status = 0
    \/ q.state = "Unauthenticated" /\ q.status = HTTP_401_UNAUTHORIZED
    \/ q.state = "Denied" /\ q.status = HTTP_403_FORBIDDEN

\* One step of a guarded request: it is new, or it moves along
\* Unauthenticated -> Unresolved -> Authorized | Denied.
GuardStep ==
    /\ (g'.pc = "token" /\ g' # g)
          => g.pc \in {"idle", "done"} /\ g'.state = "Unauthenticated"
    /\ (g'.state = "Unresolved" /\ g' # g)
          => /\ g.state = "Unauthenticated" /\ g.pc = "token"
             /\ g.cred.scheme = "Bearer" /\ g.cred.valid /\ g.cred.sub # "-"
    /\ (g'.state \in {"Authorized", "Denied"} /\ g' # g)
          => g.state = "Unresolved" /\ g'.lookups > g.lookups
    /\ (g.pc = "done" /\ g' # g) => g'.pc = "token"

\* C23: a guarded request starts Unauthenticated, becomes Unresolved only when
\* its token validated, Authorized or Denied only after a lookup of the caller's
\* roles or permissions; it ends Authorized (the handler runs), Unauthenticated
\* (401) or Denied (403), and a finished request changes no more.
C23_StateMachine ==
    /\ [](g.pc = "done" => Terminal(g))
    /\ [][GuardStep]_vars

\* What holds of C23 on every build: the order of the states, and the terminal
\* states with the status of a missing credential left to the bearer scheme.
C23_Order ==
    /\ [](g.pc = "done" =>
            \/ Terminal(g)
            \/ g.cred.scheme = "none" /\ g.state = "Unauthenticated"
                  /\ g.status \in HTTPBearerStatuses)
    /\ [][GuardStep]_vars

\* ------------------------------------------------- the order of the stages
\* main.py adds RateLimiterMiddleware with app.add_middleware, so dispatch runs
\* around the whole application: the route, and with it the dependencies of the
\* endpoint (get_current_user, role_checker, permission_checker), runs inside
\* call_next. A request for a guarded endpoint passes through dispatch first and
\* reaches the Token Validator only where dispatch called call_next.
GuardedDispatch ==
    /\ g.pc \in {"idle", "done"}
    /\ \E i \in {j \in Inputs : j.path \notin EXCLUDED_PATHS /\ j.auth \in Credentials} :
        \E d \in {dispatch(i.path, i.auth, i.rolesUp, i.ups, i.fault)} :
            /\ minute_requests' = d.minute
            /\ hour_requests' = d.hour
            /\ admitted' = d.admitted
            /\ cache' = d.c.cache
            /\ last_refresh' = d.c.last_refresh
            /\ resp' = [d.resp EXCEPT
                          !.at = clock,
                          !.request = RequestKind(i),
                          !.touched = (d.minute # minute_requests
                                       \/ d.hour # hour_requests)]
            /\ \E q \in {GuardRequest("role", lst, i.auth) : lst \in AllowedLists}
                    \cup {GuardRequest("permission", lst, i.auth) :
                             lst \in RequiredLists} :
                  g' = IF d.resp.calls > 0 THEN q ELSE [q EXCEPT !.pc = "rejected"]
    /\ UNCHANGED <<clock, db_configs, db_user_roles, db_role_names, db_permissions,
                   db_shops, op, loop>>

\* u1 holds role 1, which has any config row or none, and any role names and
\* permission keys.
InitFlow ==
    /\ InitLimiter
    /\ db_configs \in ConfigTables({1})
    /\ db_user_roles = [u \in Users |-> IF u = "u1" THEN <<1>> ELSE <<>>]
    /\ db_role_names \in {[u \in Users |-> IF u = "u1" THEN l ELSE <<>>] :
                             l \in RoleNameLists}
    /\ db_permissions \in {[u \in Users |-> IF u = "u1" THEN p ELSE {}] :
                              p \in {{}, {"users.read"}}}
    /\ db_shops = [u \in Users |-> {}]
    /\ g = [GuardRequest("role", <<>>, [scheme |-> "none", valid |-> FALSE, sub |-> "-"])
              EXCEPT !.pc = "idle"]

NextFlow == GuardedDispatch \/ TokenValidator \/ RoleChecker \/ PermissionChecker

\* Requests for guarded endpoints, one after the other, at one instant.
SpecFlow == InitFlow /\ [][NextFlow]_vars

\* C24: the rate limiter acts on a request only after the access decision was
\* made: while the limiter has counted or rejected the request, its decision is
\* made, and a request that ends Unauthenticated or Denied was neither recorded
\* in the windows nor answered 429.
C24_LimiterAfterDecision ==
    /\ (resp.checked \/ resp.recorded \/ resp.reject # None)
          => g.pc = "done" /\ g.state = "Authorized"
    /\ (g.pc = "done" /\ g.state \in {"Unauthenticated", "Denied"})
          => ~resp.recorded /\ resp.reject = None

\* What holds of C24: a request that ends Unauthenticated was neither recorded nor
\* answered 429, the middleware and get_current_user decode the token alike.
C24_UnauthenticatedUntouched ==
    (g.pc = "done" /\ g.state = "Unauthenticated")
        => ~resp.checked /\ ~resp.recorded /\ resp.reject = None

\* ------------------------------------------------- concurrent requests
\* Each request is a task of one asyncio event loop (uvicorn.run in main.py starts
\* one process with one loop). A task runs until an await of it suspends; only
\* then does the loop run another task. Of the awaits of dispatch, call_next
\* suspends (the handler runs as another task and answers later). The awaits of
\* the store and of the cache do not: Lock.acquire returns at once when the lock
\* is free, supabase_client is a synchronous client, and no statement under a
\* lock suspends. A task whose pc the predicate names has handed the loop back.
Yields_after_counts(pc) == pc \in {"handler", "idle", "check"}

Yields(pc) == pc \in {"handler", "idle"}

\* The loop lets task t take its next step.
Runs(t) ==
    \/ loop.running = t
    \/ loop.running = "-" /\ loop.task[t].pc # "idle"

\* The loop after task t stepped to q.
Goes(t, q) ==
    [loop EXCEPT !.task[t] = q, !.running = IF Yields(q.pc) THEN "-" ELSE t]

\* The task of a request that was answered: the user and the status stay on record.
Answered(q, status) == [Task0 EXCEPT !.user = q.user, !.status = status]

\* best_rpm of _get_best_rate_limit, set together with best_config
BestRpm(best) == IF best = None THEN 0 ELSE best.requests_per_minute

\* A request with the valid bearer token of a user reaches the server.
Accept(t) ==
    /\ loop.task[t].pc = "idle"
    /\ \E u \in Users :
          loop' = [loop EXCEPT !.task[t] = [Task0 EXCEPT !.pc = "start", !.user = u]]
    /\ UNCHANGED <<clock, minute_requests, hour_requests, cache, last_refresh,
                   db_configs, db_user_roles, admitted, resp, guardVars, op>>

\* dispatch up to the call of _get_best_rate_limit (source lines 111-133); the
\* subject holds at most one role id.
Identify(t) ==
    /\ Runs(t) /\ loop.task[t].pc = "start"
    /\ \E rolesUp \in BOOLEAN :
        LET q == loop.task[t]
            user_info == get_user_info([scheme |-> "Bearer", valid |-> TRUE,
                                        sub |-> q.user], rolesUp)
        IN  loop' = IF user_info = None \/ Len(user_info.role_ids) = 0
                    THEN Goes(t, [q EXCEPT !.pc = "handler"])
                    ELSE Goes(t, [q EXCEPT !.pc = "cfg_acquire",
                                           !.role_id = user_info.role_ids[1]])
    /\ UNCHANGED <<clock, minute_requests, hour_requests, cache, last_refresh,
                   db_configs, db_user_roles, admitted, resp, guardVars, op>>

\* get_config, async with self._lock: the task goes on when the lock is free and
\* waits in the loop when another task holds it.
CfgAcquire(t) ==
    /\ Runs(t) /\ loop.task[t].pc = "cfg_acquire"
    /\ loop' = IF loop.cache_lock = "-"
               THEN [Goes(t, [loop.task[t] EXCEPT !.pc = "cfg_check"])
                       EXCEPT !.cache_lock = t]
               ELSE [loop EXCEPT !.running = "-"]
    /\ UNCHANGED <<clock, minute_requests, hour_requests, cache, last_refresh,
                   db_configs, db_user_roles, admitted, resp, guardVars, op>>

\* get_config, source lines 68-71: the TTL check under the lock.
CfgCheck(t) ==
    /\ Runs(t) /\ loop.task[t].pc = "cfg_check"
    /\ LET stale == CacheExpired([cache |-> cache, last_refresh |-> last_refresh], clock)
       IN  loop' = Goes(t, [loop.task[t] EXCEPT
                              !.stale = stale,
                              !.pc = IF stale THEN "cfg_fetch" ELSE "cfg_return"])
    /\ UNCHANGED <<clock, minute_requests, hour_requests, cache, last_refresh,
                   db_configs, db_user_roles, admitted, resp, guardVars, op>>

\* The cache was refreshed and neither invalidated nor outlived since.
Refreshed == last_refresh # <<>> /\ clock - last_refresh[1] <= TTL

\* _refresh_cache, source lines 78-80: the fetch, and the rows replace the cache;
\* a failing fetch is logged (lines 83-84).
CfgFetch(t) ==
    /\ Runs(t) /\ loop.task[t].pc = "cfg_fetch"
    /\ \E up \in BOOLEAN :
        IF up
        THEN /\ cache' = db_configs
             /\ loop' = Goes(t, [loop.task[t] EXCEPT !.pc = "cfg_stamp",
                                    !.fetched = TRUE, !.dup = Refreshed])
        ELSE /\ cache' = cache
             /\ loop' = Goes(t, [loop.task[t] EXCEPT !.pc = "cfg_return",
                                    !.failed = TRUE])
    /\ UNCHANGED <<clock, minute_requests, hour_requests, last_refresh,
                   db_configs, db_user_roles, admitted, resp, guardVars, op>>

\* _refresh_cache, source line 81: self.last_refresh = datetime.utcnow()
CfgStamp(t) ==
    /\ Runs(t) /\ loop.task[t].pc = "cfg_stamp"
    /\ last_refresh' = <<clock>>
    /\ loop' = Goes(t, [loop.task[t] EXCEPT !.pc = "cfg_return"])
    /\ UNCHANGED <<clock, minute_requests, hour_requests, cache,
                   db_configs, db_user_roles, admitted, resp, guardVars, op>>

\* get_config returns self.cache.get(role_id) and leaves the lock;
\* _get_best_rate_limit keeps the row if its rpm is above 0, and dispatch passes
\* the request on when there is no enabled config (source lines 135-136).
CfgReturn(t) ==
    /\ Runs(t) /\ loop.task[t].pc = "cfg_return"
    /\ LET q == loop.task[t]
           row == CacheGet(cache, q.role_id)
           config == IF Better(row, BestRpm(None)) THEN row ELSE None
       IN  loop' = [Goes(t, [q EXCEPT !.config = config, !.fresh = Refreshed,
                                      !.pc = IF Unthrottled(config) THEN "handler"
                                             ELSE "counts"])
                      EXCEPT !.cache_lock = "-"]
    /\ UNCHANGED <<clock, minute_requests, hour_requests, cache, last_refresh,
                   db_configs, db_user_roles, admitted, resp, guardVars, op>>

\* await rate_limit_store.get_request_counts(user_id), source line 140
Counts(t) ==
    /\ Runs(t) /\ loop.task[t].pc = "counts"
    /\ LET q == loop.task[t]
       IN  \E counts \in {get_request_counts(q.user, clock)} :
            /\ minute_requests' = [minute_requests EXCEPT ![q.user] = counts.minute]
            /\ hour_requests' = [hour_requests EXCEPT ![q.user] = counts.hour]
            /\ loop' = Goes(t, [q EXCEPT !.pc = "check",
                                         !.minute_count = counts.minute_count,
                                         !.hour_count = counts.hour_count])
    /\ UNCHANGED <<clock, cache, last_refresh, db_configs, db_user_roles, admitted,
                   resp, guardVars, op>>

\* The two ceiling checks, source lines 141-153.
Check(t) ==
    /\ Runs(t) /\ loop.task[t].pc = "check"
    /\ LET q == loop.task[t]
       IN  loop' = IF \/ OverLimit(q.minute_count, q.config.requests_per_minute)
                      \/ OverLimit(q.hour_count, q.config.requests_per_hour)
                   THEN Goes(t, Answered(q, HTTP_429_TOO_MANY_REQUESTS))
                   ELSE Goes(t, [q EXCEPT !.pc = "record"])
    /\ UNCHANGED <<clock, minute_requests, hour_requests, cache, last_refresh,
                   db_configs, db_user_roles, admitted, resp, guardVars, op>>

\* await rate_limit_store.record_request(user_id), then await call_next,
\* source lines 156-159.
Record(t) ==
    /\ Runs(t) /\ loop.task[t].pc = "record"
    /\ LET q == loop.task[t]
       IN  /\ minute_requests' = [minute_requests EXCEPT
                                    ![q.user] = record_request(@, clock)]
           /\ hour_requests' = [hour_requests EXCEPT
                                    ![q.user] = record_request(@, clock)]
           /\ admitted' = [admitted EXCEPT ![q.user] = Append(@, clock)]
           /\ loop' = Goes(t, [q EXCEPT !.pc = "handler"])
    /\ UNCHANGED <<clock, cache, last_refresh, db_configs, db_user_roles,
                   resp, guardVars, op>>

\* The handler's response arrives and dispatch returns it.
HandlerReturns(t) ==
    /\ Runs(t) /\ loop.task[t].pc = "handler"
    /\ loop' = Goes(t, Answered(loop.task[t], 200))
    /\ UNCHANGED <<clock, minute_requests, hour_requests, cache, last_refresh,
                   db_configs, db_user_roles, admitted, resp, guardVars, op>>

\* invalidate() is called by the handler of an edit, a task of its own: it runs
\* while no request task holds the loop.
InvalidateTask == loop.running = "-" /\ Invalidate

\* The clock is read between the runs of the tasks: a run between two
\* suspensions is a few statements on memory and takes no time of the model.
TickTask == loop.running = "-" /\ Tick

\* u1 holds role 1, whose config row is enabled with a ceiling above 0.
InitTasks ==
    /\ InitLimiter
    /\ GuardIdle
    /\ db_configs \in {{row} : row \in {r \in ConfigRows(1) :
                                        r.enabled /\ r.requests_per_minute > 0}}
    /\ db_user_roles = [u \in Users |-> IF u = "u1" THEN <<1>> ELSE <<>>]

\* One step of a request task.
TaskStep ==
    \E t \in Tasks :
        \/ Accept(t) \/ Identify(t)
        \/ CfgAcquire(t) \/ CfgCheck(t) \/ CfgFetch(t) \/ CfgStamp(t) \/ CfgReturn(t)
        \/ Counts(t) \/ Check(t) \/ Record(t) \/ HandlerReturns(t)

NextTasks == TaskStep \/ TickTask

\* Requests of u1 and u2 served concurrently by the tasks of one loop.
SpecTasks == InitTasks /\ [][NextTasks]_vars

\* As InitTasks, with the widest ceilings.
InitReaders ==
    /\ InitTasks
    /\ \A row \in db_configs : /\ row.requests_per_minute = MaxRpm
                               /\ row.requests_per_hour = MaxRph

NextReaders == TaskStep \/ TickTask \/ InvalidateTask

\* Concurrent requests while the cache expires and is invalidated.
SpecReaders == InitReaders /\ [][NextReaders]_vars

\* Timestamps of log inside the window of the given length that ends at T.
InWindow(log, T, length) ==
    Cardinality({i \in 1..Len(log) : T - length < log[i] /\ log[i] <= T})

\* C25: under every interleaving of concurrent requests of a subject, no other
\* task touches the subject's windows between a task's count and its append, and
\* the admitted timestamps inside any window of 60 seconds never number more than
\* requests_per_minute, inside any window of 3600 seconds never more than
\* requests_per_hour.
C25_CountAndAppendAtomic ==
    /\ \A t \in Tasks :
          loop.task[t].pc \in {"check", "record"}
              => /\ loop.running = t
                 /\ Len(minute_requests[loop.task[t].user]) = loop.task[t].minute_count
                 /\ Len(hour_requests[loop.task[t].user]) = loop.task[t].hour_count
    /\ \A u \in Users :
          LET row == CacheGet(db_configs, 1)
          IN  IF row = None THEN admitted[u] = <<>>
              ELSE \A T \in Instants :
                     /\ InWindow(admitted[u], T, MinuteWindow) <= row.requests_per_minute
                     /\ InWindow(admitted[u], T, HourWindow) <= row.requests_per_hour

\* C25's case: while an admitted request of u1 waits for its handler, a second
\* request of u1 that arrived before the first was recorded is answered 429.
C25_Witness ==
    /\ loop.task["t1"].pc = "handler" /\ loop.task["t1"].user = "u1"
    /\ loop.task["t1"].config # None
    /\ loop.task["t2"].user = "u1"
    /\ loop.task["t2"].status = HTTP_429_TOO_MANY_REQUESTS
    /\ admitted["u1"] = <<clock>>

\* Task t is inside get_config, under the cache's lock.
InGetConfig(t) == loop.task[t].pc \in {"cfg_check", "cfg_fetch", "cfg_stamp", "cfg_return"}

\* Task t has its answer from get_config.
HasConfig(t) ==
    /\ loop.task[t].role_id # 0
    /\ loop.task[t].pc \in {"counts", "check", "record", "handler"}

\* C26: of the concurrent get_config calls that meet an expired or invalidated
\* cache while the store answers, one fetches and the others are answered from
\* the cache it refreshed: one task at a time is between the TTL check and the
\* return, none runs while the rows are replaced and last_refresh is not yet set,
\* no fetch is made on a refreshed cache, and every answer is the table's row.
C26_OneRefresh ==
    \A t \in Tasks :
        /\ InGetConfig(t)
              => /\ loop.cache_lock = t /\ loop.running = t
                 /\ \A o \in Tasks \ {t} : ~InGetConfig(o)
        /\ ~loop.task[t].dup
        /\ (HasConfig(t) /\ ~loop.task[t].failed)
              => /\ loop.task[t].fresh
                 /\ loop.task[t].fetched <=> loop.task[t].stale
                 /\ loop.task[t].config = BestOfTable(db_configs)

\* C26's case: two requests in flight after invalidate(); the first fetched, the
\* second found the cache refreshed and did not.
C26_Witness ==
    /\ op.kind = "invalidate"
    /\ HasConfig("t1") /\ loop.task["t1"].fetched
    /\ HasConfig("t2") /\ ~loop.task["t2"].fetched /\ ~loop.task["t2"].stale
    /\ loop.task["t2"].fresh
    /\ loop.task["t2"].config # None
    /\ last_refresh = <<clock>>

\* ------------------------------------------------- a handler that raises
\* call_next raises what the application raised and no exception handler turned
\* into a response. Where dispatch awaited call_next inside its try block (source
\* lines 114, 119, 126, 136, 159) the except clause of line 167 catches the error
\* and calls call_next again; an error of the call_next of line 170 leaves dispatch.
HandlerRaises(r) ==
    IF r.caught THEN [r EXCEPT !.raised = TRUE]
    ELSE OnLimiterError([r EXCEPT !.headers = None])

\* One request passes through the middleware and its handler raises.
DispatchHandlerRaises ==
    \E i \in Inputs :
        \E d \in {dispatch(i.path, i.auth, i.rolesUp, i.ups, i.fault)} :
            /\ d.resp.calls > 0
            /\ minute_requests' = d.minute
            /\ hour_requests' = d.hour
            /\ admitted' = d.admitted
            /\ cache' = d.c.cache
            /\ last_refresh' = d.c.last_refresh
            /\ resp' = [HandlerRaises(d.resp) EXCEPT
                          !.at = clock,
                          !.request = RequestKind(i),
                          !.touched = (d.minute # minute_requests
                                       \/ d.hour # hour_requests)]
            /\ op' = IF Len(d.resp.role_ids) > 0 THEN OpRead("dispatch") ELSE op
            /\ UNCHANGED <<clock, db_configs, db_user_roles, guardVars, loop>>

NextHandler == Dispatch \/ DispatchHandlerRaises \/ Tick

\* Requests whose handlers return or raise.
SpecHandler == Init /\ [][NextHandler]_vars

\* C27: dispatch invokes call_next at most once for a request, also when the
\* handler or the annotation of its response raises after call_next was invoked
\* inside the try block.
C27_CallNextAtMostOnce == resp.calls <= 1

\* What holds of C27: a request whose handler returns is handed to call_next at
\* most once, and no request more than twice.
C27_OnceUnlessHandlerRaises ==
    /\ resp.calls <= 2
    /\ resp.calls = 2 => resp.caught /\ resp.headers = None

\* ------------------------------------------------------ rejected requests
\* C28: a request answered 429 is not recorded: the handler is not called, and
\* each window of the subject is what it was, less the entries that left the
\* window (the subject's admitted timestamps still inside it), so a rejection
\* never adds an entry that would keep the subject throttled longer.
C28_RejectedNotRecorded ==
    /\ [](resp.reject # None =>
            /\ ~resp.recorded /\ resp.calls = 0
            /\ minute_requests[resp.user]
                  = Prune(admitted[resp.user], resp.at - MinuteWindow)
            /\ hour_requests[resp.user]
                  = Prune(admitted[resp.user], resp.at - HourWindow)
            /\ Len(minute_requests[resp.user]) = resp.minute_count
            /\ Len(hour_requests[resp.user]) = resp.hour_count)
    /\ [][(resp'.reject # None /\ resp' # resp) =>
            /\ minute_requests' = [minute_requests EXCEPT ![resp'.user] =
                                      PruneMinute(@, clock)]
            /\ hour_requests' = [hour_requests EXCEPT ![resp'.user] =
                                      PruneHour(@, clock)]
            /\ admitted' = admitted]_vars

\* C28's case: a rejection on the hour ceiling whose read pruned the minute
\* window to nothing.
C28_Witness ==
    /\ resp.reject # None
    /\ resp.touched
    /\ minute_requests[resp.user] = <<>>
    /\ Len(hour_requests[resp.user]) = 2

\* ------------------------------------------------------ the two windows
RECURSIVE IsSubSeq(_, _)
\* a can be had from b by leaving entries out
IsSubSeq(a, b) ==
    IF a = <<>> THEN TRUE
    ELSE IF b = <<>> THEN FALSE
    ELSE IF Head(a) = Head(b) THEN IsSubSeq(Tail(a), Tail(b))
    ELSE IsSubSeq(a, Tail(b))

\* lst is in non-decreasing order
Ordered(lst) == \A i \in 1..Len(lst) : \A j \in i..Len(lst) : lst[i] <= lst[j]

\* C29: for every subject the minute window is a sub-sequence of the hour window,
\* both are in non-decreasing time order, and the minute count get_request_counts
\* returns is never above the hour count.
C29_MinuteWithinHour ==
    /\ \A u \in Users :
          /\ IsSubSeq(minute_requests[u], hour_requests[u])
          /\ Ordered(minute_requests[u])
          /\ Ordered(hour_requests[u])
          /\ LET counts == get_request_counts(u, clock)
             IN  counts.minute_count <= counts.hour_count
    /\ resp.checked => resp.minute_count <= resp.hour_count

\* C29's case: an hour window of two entries of different instants, the later one
\* alone in the minute window, and a read that counted one and two.
C29_Witness ==
    /\ Len(hour_requests["u1"]) = 2
    /\ hour_requests["u1"][1] < hour_requests["u1"][2]
    /\ minute_requests["u1"] = <<hour_requests["u1"][2]>>
    /\ resp.checked /\ resp.minute_count = 1 /\ resp.hour_count = 2

\* ------------------------------------------------------ a failed refresh
\* C30: a get_config whose fetch fails leaves the cached rows and last_refresh as
\* they were and answers with the row cached before (None when there is none);
\* the cache stays due for a refresh, and the get_config that comes next attempts
\* the fetch again.
C30_FailedRefreshKeepsCache ==
    /\ []((op.kind = "get_config" /\ op.fetched /\ ~op.up) =>
            /\ op.kept
            /\ op.answer = op.old
            /\ CacheExpired([cache |-> cache, last_refresh |-> last_refresh], clock))
    /\ [][(op.kind = "get_config" /\ op.fetched /\ ~op.up /\ op'.kind = "get_config")
             => op'.fetched]_vars

\* C30's case: the fetch fails on an outlived cache that holds the role's row, and
\* the row is the answer.
C30_Witness ==
    /\ op.kind = "get_config" /\ op.fetched /\ ~op.up
    /\ op.older
    /\ op.answer # None
    /\ last_refresh # <<>>

====
